---- MODULE Spec2Model ----
(***************************************************************************)
(* Model of the transcribe audio player: the engine state machine          *)
(* (src/audio/engine.rs), the time-stretch adapter (src/audio/stretcher.rs)*)
(* and the command/event channels between the control thread (src/app.rs)  *)
(* and the audio callback.                                                 *)
(*                                                                         *)
(* Time in seconds (f64 in the source) is an integer number of ticks,      *)
(* TicksPerSecond ticks to the second; sample rates divide TicksPerSecond, *)
(* so position / sample_rate is exact and time * sample_rate truncates as  *)
(* the `as usize` cast does.  Option<T> is a sequence of length 0 or 1.    *)
(***************************************************************************)
EXTENDS Integers, Sequences, FiniteSets, TLC

\* ------------------------------------------------------------------ bounds
\* sub-frame resolution of a time in seconds, at the higher sample rate
TicksPerFrame == 2
\* frames of the longer audio buffer
MaxFrames == 3
\* frames of the largest output buffer the hardware requests
MaxOut == 2
\* CHUNK_SIZE (1024 in engine.rs:10), scaled down
CHUNK_SIZE == 2
\* POSITION_UPDATE_INTERVAL (2048 in engine.rs:12), scaled down
POSITION_UPDATE_INTERVAL == 3
\* capacity of the event channel (256 in engine.rs:202), scaled down
EventCap == 2
\* capacity of the command channel (64 in engine.rs:201), scaled down
CmdCap == 2
\* messages other than Tick that the runtime delivers to update() in one run
MaxUi == 4

TicksPerSecond == 2 * TicksPerFrame

Min(a, b) == IF a < b THEN a ELSE b
Max(a, b) == IF a > b THEN a ELSE b

None == <<>>
Some(x) == <<x>>
IsSome(o) == o /= <<>>
Unwrap(o) == o[1]

\* ------------------------------------------------------------- audio data
\* AudioData: num_frames stands for samples.len() / channels.
AudioA == [id |-> "A", sample_rate |-> 2, channels |-> 1, num_frames |-> MaxFrames]
AudioB == [id |-> "B", sample_rate |-> 1, channels |-> 2, num_frames |-> MaxFrames - 1]
Audios == {AudioA, AudioB}

\* decoder.rs: duration = num_frames as f64 / sample_rate as f64
Duration(a) == (a.num_frames * TicksPerSecond) \div a.sample_rate

\* (time * sample_rate as f64) as usize
TimeToFrame(time, sr) == (time * sr) \div TicksPerSecond
\* position as f64 / sample_rate as f64
FrameToTime(frame, sr) == (frame * TicksPerSecond) \div sr

\* tempo ratios, in quarters: 0.25, 1.0 and 2.0
Tempos == {1, 4, 8}
UnitTempo == 4

\* ----------------------------------------------------------------- events
PositionChanged(secs) == [type |-> "PositionChanged", secs |-> secs]
PlaybackFinished == [type |-> "PlaybackFinished", secs |-> 0]

\* ------------------------------------------------------------- stretcher
\* buf: the source frames fed and not yet received, oldest first
StretcherNew(sr, ch) == [sample_rate |-> sr, channels |-> ch, tempo |-> UnitTempo, buf |-> <<>>]
StretcherSetTempo(s, t) == [s EXCEPT !.tempo = t]
StretcherPut(s, frames) == [s EXCEPT !.buf = @ \o frames]
\* mutant: clear() leaves the newest buffered frame in place
StretcherClearKeepsLast(s) == [s EXCEPT !.buf = IF @ = <<>> THEN @ ELSE <<@[Len(@)]>>]

StretcherClear(s) == [s EXCEPT !.buf = <<>>]
\* receive_samples never blocks and returns between 0 and the frames asked for
ReceiveCounts(s, needed) == 0 .. Min(needed, Len(s.buf))
StretcherTake(s, got) == [s EXCEPT !.buf = SubSeq(@, got + 1, Len(@))]

VARIABLES
    audio, position, playing, tempo, loop_region, stretcher, frames_since_update,
    pc, out_pos, output, blocked,
    cmdq, evq,
    app, ui_blocked, ui_count,
    last, finished, stops, stall, dropped, ended, at_start,
    wf

engine == <<audio, position, playing, tempo, loop_region, stretcher, frames_since_update>>
callback == <<pc, out_pos, output, blocked>>
\* the history of the calls; ended counts the ends of the stream since the
\* position was last moved back (by LoadAudio, Stop, Seek or a loop wrap)
ghost == <<last, finished, stops, stall, dropped, ended>>
\* the control thread's side: the command channel, the App, its blocked send
control == <<cmdq, app, ui_blocked, ui_count, at_start, wf>>
vars == <<engine, callback, evq, control, ghost>>


\* output buffer entries, one per frame: a source frame index, or
Silence == 0 - 1
\* or what the buffer held before the callback wrote to it
Garbage == 0 - 2

Range(lo, hi) == [i \in 1 .. (hi - lo) |-> lo + i - 1]

\* --------------------------------------------------------- event channel
\* crossbeam bounded channel: send blocks while the channel is full.
\* The sender continues at `next` once the event is in the channel.
SendThen(ev, next) ==
    IF Len(evq) < EventCap
    THEN evq' = Append(evq, ev) /\ blocked' = None /\ pc' = next
    ELSE evq' = evq /\ blocked' = Some([ev |-> ev, resume |-> next]) /\ pc' = "blocked"

NoSend(next) == pc' = next /\ UNCHANGED <<evq, blocked>>

\* ------------------------------------------------ EngineState::handle_command
\* mutant: the new stretcher keeps the tempo Stretcher::new gives it
LoadedStretcherUnitTempo(data, t) == StretcherNew(data.sample_rate, data.channels)

LoadedStretcher(data, t) == StretcherSetTempo(StretcherNew(data.sample_rate, data.channels), t)

\* mutant: the frame after the one that holds the time
SeekFrameNext(time, a) == Min(TimeToFrame(time, a.sample_rate) + 1, a.num_frames)

SeekFrame(time, a) == Min(TimeToFrame(time, a.sample_rate), a.num_frames)

LoopFrames(region, a) ==
    <<TimeToFrame(region[1], a.sample_rate),
      Min(TimeToFrame(region[2], a.sample_rate), a.num_frames)>>

\* mutant: the stretcher keeps what it buffered
ClearedStretcherKept(st) == st

ClearedStretcher(st) == IF IsSome(st) THEN Some(StretcherClear(Unwrap(st))) ELSE None

\* the frames a stretcher holds, none when there is no stretcher
Buffered(st) == IF IsSome(st) THEN Len(Unwrap(st).buf) ELSE 0

\* mutant: Play starts playback whatever is loaded
CanPlayAlways(a) == TRUE

CanPlay(a) == IsSome(a)

HandleLoadAudio(data, ret) ==
    /\ audio' = Some(data)
    /\ position' = 0
    /\ playing' = FALSE
    /\ loop_region' = None
    /\ stretcher' = Some(LoadedStretcher(data, tempo))
    /\ NoSend(ret)
    /\ UNCHANGED <<tempo, frames_since_update>>

\* mutant: Play at the end of the stream starts over from frame 0
HandlePlayRewinds(ret) ==
    /\ playing' = (IF CanPlay(audio) THEN TRUE ELSE playing)
    /\ position' = (IF IsSome(audio) /\ position >= Unwrap(audio).num_frames THEN 0 ELSE position)
    /\ NoSend(ret)
    /\ UNCHANGED <<audio, tempo, loop_region, stretcher, frames_since_update>>

HandlePlay(ret) ==
    /\ playing' = (IF CanPlay(audio) THEN TRUE ELSE playing)
    /\ NoSend(ret)
    /\ UNCHANGED <<audio, position, tempo, loop_region, stretcher, frames_since_update>>

\* mutant: Pause also clears the stretcher
HandlePauseClears(ret) ==
    /\ playing' = FALSE
    /\ stretcher' = ClearedStretcher(stretcher)
    /\ NoSend(ret)
    /\ UNCHANGED <<audio, position, tempo, loop_region, frames_since_update>>

HandlePause(ret) ==
    /\ playing' = FALSE
    /\ NoSend(ret)
    /\ UNCHANGED <<audio, position, tempo, loop_region, stretcher, frames_since_update>>

HandleStop(ret) ==
    /\ playing' = FALSE
    /\ position' = 0
    /\ stretcher' = ClearedStretcher(stretcher)
    /\ SendThen(PositionChanged(0), ret)
    /\ UNCHANGED <<audio, tempo, loop_region, frames_since_update>>

HandleSeek(time, ret) ==
    IF IsSome(audio)
    THEN /\ position' = SeekFrame(time, Unwrap(audio))
         /\ stretcher' = ClearedStretcher(stretcher)
         /\ SendThen(PositionChanged(FrameToTime(position', Unwrap(audio).sample_rate)), ret)
         /\ UNCHANGED <<audio, playing, tempo, loop_region, frames_since_update>>
    ELSE NoSend(ret) /\ UNCHANGED engine

\* mutant: the ratio is stored and not forwarded
HandleSetTempoStoresOnly(t, ret) ==
    /\ tempo' = t
    /\ NoSend(ret)
    /\ UNCHANGED <<audio, position, playing, loop_region, stretcher, frames_since_update>>

HandleSetTempo(t, ret) ==
    /\ tempo' = t
    /\ stretcher' = (IF IsSome(stretcher) THEN Some(StretcherSetTempo(Unwrap(stretcher), t)) ELSE None)
    /\ NoSend(ret)
    /\ UNCHANGED <<audio, position, playing, loop_region, frames_since_update>>

HandleSetLoopRegion(region, ret) ==
    /\ loop_region' = (IF IsSome(audio)
                       THEN (IF IsSome(region) THEN Some(LoopFrames(Unwrap(region), Unwrap(audio))) ELSE None)
                       ELSE loop_region)
    /\ NoSend(ret)
    /\ UNCHANGED <<audio, position, playing, tempo, stretcher, frames_since_update>>

HandleShutdown(ret) == NoSend(ret) /\ UNCHANGED engine

HandleCommand(cmd, ret) ==
    /\ CASE cmd.type = "LoadAudio" -> HandleLoadAudio(cmd.data, ret)
         [] cmd.type = "Play" -> HandlePlay(ret)
         [] cmd.type = "Pause" -> HandlePause(ret)
         [] cmd.type = "Stop" -> HandleStop(ret)
         [] cmd.type = "Seek" -> HandleSeek(cmd.time, ret)
         [] cmd.type = "SetTempo" -> HandleSetTempo(cmd.tempo, ret)
         [] cmd.type = "SetLoopRegion" -> HandleSetLoopRegion(cmd.region, ret)
         [] cmd.type = "Shutdown" -> HandleShutdown(ret)
    /\ last' = cmd.type
    /\ finished' = 0
    /\ stops' = (IF cmd.type = "Stop" THEN Min(stops + 1, 2) ELSE 0)
    /\ stall' = 0
    /\ dropped' = Buffered(stretcher) - Buffered(stretcher')
    /\ ended' = (IF cmd.type \in {"LoadAudio", "Stop", "Seek"} THEN 0 ELSE ended)

\* --------------------------------------------------- EngineState::fill_buffer
\* let out_frames = output.len() / out_channels
OutFrames == Len(output)

\* mutant: the early return leaves the buffer as it was handed over
SilentBufferUntouched(n) == [i \in 1 .. n |-> Garbage]

\* output.fill(0.0) over a buffer of n frames
SilentBuffer(n) == [i \in 1 .. n |-> Silence]

\* mutant: the rest of the buffer is left as it was
SilenceRestSkipped(out, from) == out

\* for i in out_pos * out_channels..output.len() { output[i] = 0.0 }
SilenceRest(out, from) == [i \in 1 .. Len(out) |-> IF i > from THEN Silence ELSE out[i]]

\* the frames received are written at out_pos .. out_pos + got - 1
WriteFrames(out, at, frames) ==
    [i \in 1 .. Len(out) |-> IF i > at /\ i <= at + Len(frames) THEN frames[i - at] ELSE out[i]]

\* mutant: the chunk is not clamped to the loop end
FeedFramesUnclamped(pos, total, lr) == Min(CHUNK_SIZE, total - pos)

\* mutant: a whole chunk, whatever is left of the buffer
FeedFramesWholeChunk(pos, total, lr) == CHUNK_SIZE

\* CHUNK_SIZE.min(total_frames - position), then .min(end - position) under a loop
FeedFrames(pos, total, lr) ==
    LET feed == Min(CHUNK_SIZE, total - pos)
    IN IF IsSome(lr) THEN Min(feed, Unwrap(lr)[2] - pos) ELSE feed

\* mutant: only the end of the buffer sends the position back
MustWrapAtBufferEnd(pos, total, lr) == IsSome(lr) /\ pos >= total

\* the two tests that send the position back to the loop start
MustWrap(pos, total, lr) == IsSome(lr) /\ (pos >= total \/ pos >= Unwrap(lr)[2])

\* mutant: the end of the buffer ends playback, loop region or not
AtEndIgnoringLoop(pos, total, lr) == pos >= total

\* end of stream: nothing left to feed and no loop region
AtEnd(pos, total, lr) == pos >= total /\ ~IsSome(lr)

\* mutant: the counter has to pass the interval
UpdateDueLate(fsu) == fsu > POSITION_UPDATE_INTERVAL

\* frames_since_update >= POSITION_UPDATE_INTERVAL
UpdateDue(fsu) == fsu >= POSITION_UPDATE_INTERVAL

\* while out_pos < out_frames
AfterIteration(pos, frames) == IF pos < frames THEN "fill" ELSE "idle"

\* entry of fill_buffer, up to the loop: the three early returns, or the loop
FillBegin(n) ==
    /\ out_pos' = 0
    /\ IF ~playing \/ ~IsSome(audio) \/ ~IsSome(stretcher)
       THEN /\ output' = SilentBuffer(n)
            /\ pc' = "idle"
            /\ last' = "silence"
       ELSE /\ output' = [i \in 1 .. n |-> Garbage]
            /\ pc' = AfterIteration(0, n)
            /\ last' = "fill_begin"
    /\ stops' = 0
    /\ stall' = 0
    /\ dropped' = 0
    /\ UNCHANGED <<engine, evq, blocked, finished, ended>>

\* one iteration in which the stretcher returns got > 0 frames
FillReceive ==
    /\ pc = "fill"
    /\ \E got \in ReceiveCounts(Unwrap(stretcher), OutFrames - out_pos) :
        /\ got > 0
        /\ output' = WriteFrames(output, out_pos, SubSeq(Unwrap(stretcher).buf, 1, got))
        /\ out_pos' = out_pos + got
        /\ stretcher' = Some(StretcherTake(Unwrap(stretcher), got))
        /\ IF UpdateDue(frames_since_update + got)
           THEN /\ frames_since_update' = 0
                /\ SendThen(PositionChanged(FrameToTime(position, Unwrap(audio).sample_rate)),
                            AfterIteration(out_pos + got, OutFrames))
           ELSE /\ frames_since_update' = frames_since_update + got
                /\ NoSend(AfterIteration(out_pos + got, OutFrames))
    /\ last' = "recv"
    /\ stall' = 0
    /\ dropped' = 0
    /\ UNCHANGED <<audio, position, playing, tempo, loop_region, control, finished, stops, ended>>

\* one iteration in which the stretcher returns nothing and the position wraps
FillWrap ==
    /\ pc = "fill"
    /\ 0 \in ReceiveCounts(Unwrap(stretcher), OutFrames - out_pos)
    /\ MustWrap(position, Unwrap(audio).num_frames, loop_region)
    /\ position' = Unwrap(loop_region)[1]
    /\ stretcher' = Some(StretcherClear(Unwrap(stretcher)))
    /\ last' = "wrap"
    /\ ended' = 0
    /\ stall' = Min(stall + 1, 2)
    /\ dropped' = 0
    /\ UNCHANGED <<audio, playing, tempo, loop_region, frames_since_update, callback,
                   control, evq, finished, stops>>

\* one iteration in which the stretcher returns nothing at the end of the stream
FillFinish ==
    /\ pc = "fill"
    /\ 0 \in ReceiveCounts(Unwrap(stretcher), OutFrames - out_pos)
    /\ AtEnd(position, Unwrap(audio).num_frames, loop_region)
    /\ playing' = FALSE
    /\ IF Len(evq) < EventCap
       THEN /\ evq' = Append(evq, PlaybackFinished)
            /\ blocked' = None
            /\ output' = SilenceRest(output, out_pos)
            /\ pc' = "idle"
       ELSE /\ evq' = evq
            /\ blocked' = Some([ev |-> PlaybackFinished, resume |-> "finish"])
            /\ output' = output
            /\ pc' = "blocked"
    /\ last' = "finish"
    /\ finished' = Min(finished + 1, 2)
    /\ ended' = Min(ended + 1, 2)
    /\ stall' = 0
    /\ dropped' = 0
    /\ UNCHANGED <<audio, position, tempo, loop_region, stretcher, frames_since_update,
                   out_pos, control, stops>>

\* one iteration in which the stretcher returns nothing and a chunk is fed
FillFeed ==
    /\ pc = "fill"
    /\ 0 \in ReceiveCounts(Unwrap(stretcher), OutFrames - out_pos)
    /\ ~MustWrap(position, Unwrap(audio).num_frames, loop_region)
    /\ ~AtEnd(position, Unwrap(audio).num_frames, loop_region)
    /\ LET feed_frames == FeedFrames(position, Unwrap(audio).num_frames, loop_region)
       IN /\ stretcher' = Some(StretcherPut(Unwrap(stretcher), Range(position, position + feed_frames)))
          /\ position' = position + feed_frames
    /\ last' = "feed"
    /\ stall' = 0
    /\ dropped' = 0
    /\ UNCHANGED <<audio, playing, tempo, loop_region, frames_since_update, callback,
                   control, evq, finished, stops, ended>>

\* the blocked send completes once the receiver has made room
Unblock ==
    /\ pc = "blocked"
    /\ Len(evq) < EventCap
    /\ evq' = Append(evq, Unwrap(blocked).ev)
    /\ blocked' = None
    /\ IF Unwrap(blocked).resume = "finish"
       THEN output' = SilenceRest(output, out_pos) /\ pc' = "idle"
       ELSE output' = output /\ pc' = Unwrap(blocked).resume
    /\ UNCHANGED <<engine, out_pos, control, ghost>>

\* ------------------------------------------------------------------ commands
LoadAudio(data) == [type |-> "LoadAudio", data |-> data]
Play == [type |-> "Play"]
Pause == [type |-> "Pause"]
Stop == [type |-> "Stop"]
Seek(time) == [type |-> "Seek", time |-> time]
SetTempo(t) == [type |-> "SetTempo", tempo |-> t]
SetLoopRegion(region) == [type |-> "SetLoopRegion", region |-> region]
Shutdown == [type |-> "Shutdown"]

\* the duration the control surface validates times against
LoadedDuration == IF IsSome(audio) THEN Duration(Unwrap(audio)) ELSE 0

\* regions with 0 <= s < e <= d, in ticks
Regions(d) == {r \in (0 .. d) \X (0 .. d) : r[1] < r[2]}

\* every command with pre-validated arguments
ValidCommands ==
    {LoadAudio(a) : a \in Audios}
        \cup {Play, Pause, Stop, Shutdown}
        \cup {Seek(t) : t \in 0 .. LoadedDuration}
        \cup {SetTempo(t) : t \in Tempos}
        \cup {SetLoopRegion(None)}
        \cup {SetLoopRegion(Some(r)) : r \in Regions(LoadedDuration)}

\* ----------------------------------------------------------------- App (app.rs)
\* cmd_tx stands for cmd_tx and event_rx, set together; engine_task is the
\* spawn_engine task of boot(): "pending", "spawned" (the stream runs and
\* EngineReady(Ok) is on its way), "ready" or "failed".  tempo, loop_region,
\* filename and the waveform view are shown and never read back by a handler
\* that sends a command; they are left out.
boot ==
    [cmd_tx |-> FALSE, status |-> "Stopped", position |-> 0, duration |-> 0,
     error |-> "none", audio_data |-> None, engine_task |-> "pending"]

\* (app.position - 5.0).max(0.0) and (app.position + 5.0).min(app.duration)
FiveSeconds == 5 * TicksPerSecond
ArrowLeftTime(a) == Max(a.position - FiveSeconds, 0)
ArrowRightTime(a) == Min(a.position + FiveSeconds, a.duration)

\* the command update() sends for a message, when cmd_tx is set
CommandOf(a, msg) ==
    CASE msg.type = "PlayPause" -> Some(IF a.status = "Playing" THEN Pause ELSE Play)
      [] msg.type = "Stop" -> Some(Stop)
      [] msg.type = "TempoChanged" -> Some(SetTempo(msg.tempo))
      [] msg.type = "ClearLoop" -> Some(SetLoopRegion(None))
      [] msg.type = "FileLoaded" -> IF msg.ok THEN Some(LoadAudio(msg.data)) ELSE None
      [] msg.type = "Seek" -> Some(Seek(msg.time))
      [] msg.type = "LoopSelected" -> Some(SetLoopRegion(Some(msg.region)))
      [] msg.type = "ArrowLeft" -> Some(Seek(ArrowLeftTime(a)))
      [] msg.type = "ArrowRight" -> Some(Seek(ArrowRightTime(a)))
      [] OTHER -> None

Sent(a, msg) == IF a.cmd_tx THEN CommandOf(a, msg) ELSE None

\* mutant: a failed decode also drops what was loaded
DecodeFailedUnloads(a) == [a EXCEPT !.error = "decode", !.audio_data = None, !.duration = 0]

\* FileLoaded(Err(e)): app.error = Some(e)
DecodeFailed(a) == [a EXCEPT !.error = "decode"]

\* EngineReady(Err(e)): app.error = Some(..); cmd_tx and event_rx stay None
EngineFailed(a) == [a EXCEPT !.error = "engine", !.engine_task = "failed"]

\* the fields update() assigns for a message
Updated(a, msg) ==
    CASE msg.type = "EngineReady" ->
            IF msg.ok THEN [a EXCEPT !.cmd_tx = TRUE, !.engine_task = "ready"]
            ELSE EngineFailed(a)
      [] msg.type = "PlayPause" ->
            IF a.cmd_tx
            THEN [a EXCEPT !.status = IF a.status = "Playing" THEN "Paused" ELSE "Playing"]
            ELSE a
      [] msg.type = "Stop" ->
            IF a.cmd_tx THEN [a EXCEPT !.status = "Stopped", !.position = 0] ELSE a
      [] msg.type = "FileLoaded" ->
            IF msg.ok
            THEN [a EXCEPT !.duration = Duration(msg.data), !.position = 0,
                           !.status = "Stopped", !.error = "none",
                           !.audio_data = Some(msg.data)]
            ELSE DecodeFailed(a)
      [] msg.type = "Seek" ->
            IF a.cmd_tx THEN [a EXCEPT !.position = msg.time] ELSE a
      [] OTHER -> a

\* Message::Tick: every event in the channel, in order
RECURSIVE Received(_, _)
Received(a, events) ==
    IF events = <<>> THEN a
    ELSE LET ev == Head(events)
             b == IF ev.type = "PositionChanged" THEN [a EXCEPT !.position = ev.secs]
                  ELSE [a EXCEPT !.status = "Stopped", !.position = 0]
         IN Received(b, Tail(events))

\* where a click or a drag on the waveform canvas can land: start * duration
ClickTimes(d) == {0, d \div 2, d}
DragRegions(d) == {<<0, 1>>, <<0, d>>, <<d \div 2, d>>} \cap Regions(d)

\* the messages the runtime can deliver in the App's state
Messages ==
    {[type |-> "EngineReady", ok |-> ok] : ok \in IF app.engine_task = "pending" THEN {FALSE}
                                                   ELSE IF app.engine_task = "spawned" THEN {TRUE} ELSE {}}
        \cup {[type |-> t] : t \in {"PlayPause", "Stop", "ArrowLeft", "ArrowRight"}}
        \cup {[type |-> "ClearLoop"]}
        \cup {[type |-> "TempoChanged", tempo |-> t] : t \in Tempos}
        \cup {[type |-> "FileLoaded", ok |-> TRUE, data |-> d] : d \in Audios}
        \cup {[type |-> "FileLoaded", ok |-> FALSE]}
        \cup (IF IsSome(app.audio_data)
              THEN {[type |-> "Seek", time |-> t] : t \in ClickTimes(app.duration)}
                       \cup {[type |-> "LoopSelected", region |-> r] : r \in DragRegions(app.duration)}
              ELSE {})

\* ------------------------------------------- the engine, driven command by command
Constructed ==
    /\ audio = None
    /\ position = 0
    /\ playing = FALSE
    /\ tempo = UnitTempo
    /\ loop_region = None
    /\ stretcher = None
    /\ frames_since_update = 0
    /\ pc = "idle"
    /\ out_pos = 0
    /\ output = <<>>
    /\ blocked = None
    /\ cmdq = <<>>
    /\ evq = <<>>
    /\ last = "init"
    /\ finished = 0
    /\ stops = 0
    /\ stall = 0
    /\ dropped = 0
    /\ ended = 0
    /\ at_start = 0
    /\ app = boot
    /\ ui_blocked = None
    /\ ui_count = 0

\* WaveformView::new(): no peaks, total_frames = 0
NoView == [stage |-> "new", mono |-> <<>>, levels |-> <<>>, width |-> 0, total_frames |-> 0,
           shown |-> <<>>, spp |-> 0, prev |-> <<>>]

Init == Constructed /\ wf = NoView

\* handle_command on a fresh call: the buffer of the last fill_buffer is gone
Command ==
    /\ pc = "idle"
    /\ evq = <<>>
    /\ \E cmd \in ValidCommands : HandleCommand(cmd, "idle")
    /\ out_pos' = 0
    /\ output' = <<>>
    /\ UNCHANGED control

Fill ==
    /\ pc = "idle"
    /\ evq = <<>>
    /\ \E n \in 1 .. MaxOut : FillBegin(n)
    /\ UNCHANGED control

\* the caller takes every event out of the channel before its next call
RecvEvents ==
    /\ pc = "idle"
    /\ evq /= <<>>
    /\ evq' = <<>>
    /\ UNCHANGED <<engine, callback, control, ghost>>

Next == Command \/ Fill \/ FillReceive \/ FillWrap \/ FillFinish \/ FillFeed \/ RecvEvents

Spec == Init /\ [][Next]_vars

\* ------------------------------- the control thread, the channels and the callback
\* tx.send(cmd) blocks while the command channel is full; the handler's
\* assignments are seen by no other thread, so they take effect with the send.
Deliver(msg) ==
    LET cmd == Sent(app, msg)
    IN IF IsSome(cmd) /\ Len(cmdq) >= CmdCap
       THEN ui_blocked' = Some(msg) /\ UNCHANGED <<app, cmdq>>
       ELSE /\ app' = Updated(app, msg)
            /\ cmdq' = (IF IsSome(cmd) THEN Append(cmdq, Unwrap(cmd)) ELSE cmdq)
            /\ ui_blocked' = None

\* update(app, message) for every message but Tick
UiMessage ==
    /\ ui_blocked = None
    /\ ui_count < MaxUi
    /\ ui_count' = ui_count + 1
    /\ \E msg \in Messages : Deliver(msg)
    /\ UNCHANGED <<engine, callback, evq, ghost, at_start, wf>>

\* the blocked tx.send returns once the callback has taken a command
UiResume ==
    /\ ui_blocked /= None
    /\ Len(cmdq) < CmdCap
    /\ Deliver(Unwrap(ui_blocked))
    /\ UNCHANGED <<engine, callback, evq, ghost, at_start, ui_count, wf>>

\* Message::Tick
Tick ==
    /\ ui_blocked = None
    /\ app.cmd_tx
    /\ evq /= <<>>
    /\ app' = Received(app, evq)
    /\ evq' = <<>>
    /\ UNCHANGED <<engine, callback, cmdq, ui_blocked, ghost, at_start, ui_count, wf>>

\* spawn_engine returns Ok: the stream runs before EngineReady is delivered
EngineSpawned ==
    /\ app.engine_task = "pending"
    /\ app' = [app EXCEPT !.engine_task = "spawned"]
    /\ UNCHANGED <<engine, callback, evq, cmdq, ui_blocked, ghost, at_start, ui_count, wf>>

StreamRuns == app.engine_task \in {"spawned", "ready"}

\* mutant: the newest command is taken first
TryRecvNewest(q) == q[Len(q)]

\* cmd_rx.try_recv(): the oldest command, and what stays in the channel
TryRecv(q) == Head(q)
AfterRecv(q) == Tail(q)
\* try_recv() returns Err: the while let loop ends
RecvFails(q) == q = <<>>

\* the hardware calls the output callback
CallbackStart ==
    /\ StreamRuns
    /\ pc = "idle"
    /\ pc' = "drain"
    /\ at_start' = Len(cmdq)
    /\ out_pos' = 0
    /\ output' = <<>>
    /\ UNCHANGED <<engine, blocked, evq, cmdq, app, ui_blocked, ghost, ui_count, wf>>

\* while let Ok(cmd) = cmd_rx.try_recv() { state.handle_command(cmd, ..) }
DrainCommand ==
    /\ pc = "drain"
    /\ ~RecvFails(cmdq)
    /\ HandleCommand(TryRecv(cmdq), "drain")
    /\ cmdq' = AfterRecv(cmdq)
    /\ at_start' = Max(at_start - 1, 0)
    /\ UNCHANGED <<out_pos, output, app, ui_blocked, ui_count, wf>>

\* state.fill_buffer(data, channels, ..)
CallbackFill ==
    /\ pc = "drain"
    /\ RecvFails(cmdq)
    /\ \E n \in 1 .. MaxOut : FillBegin(n)
    /\ UNCHANGED control

SysNext ==
    \/ UiMessage \/ UiResume \/ Tick \/ EngineSpawned
    \/ CallbackStart \/ DrainCommand \/ CallbackFill
    \/ FillReceive \/ FillWrap \/ FillFinish \/ FillFeed \/ Unblock

SysSpec == Init /\ [][SysNext]_vars

\* ---- the transport buttons alone: no file is opened, so fill_buffer takes
\* its early return and the loop of fill_buffer never runs
MaxPresses == 7

ButtonMessages == {msg \in Messages : msg.type \in {"EngineReady", "PlayPause", "Stop"}}

\* update(app, message) for EngineReady and for the Play/Pause and Stop buttons
ButtonMessage ==
    /\ ui_blocked = None
    /\ ui_count < MaxPresses
    /\ ui_count' = ui_count + 1
    /\ \E msg \in ButtonMessages : Deliver(msg)
    /\ UNCHANGED <<engine, callback, evq, ghost, at_start, wf>>

ButtonNext ==
    \/ ButtonMessage \/ UiResume \/ Tick \/ EngineSpawned
    \/ CallbackStart \/ DrainCommand \/ CallbackFill \/ Unblock

ButtonSpec == Init /\ [][ButtonNext]_vars

\* ---- a file played to its end and played again: the file dialog, the
\* transport buttons and a drag on the waveform
MaxReplay == 5
ReplayMessages ==
    {msg \in Messages : msg.type \in {"EngineReady", "FileLoaded", "PlayPause", "Stop", "LoopSelected"}}

\* update(app, message) for EngineReady, FileLoaded, PlayPause, Stop, LoopSelected
ReplayMessage ==
    /\ ui_blocked = None
    /\ ui_count < MaxReplay
    /\ ui_count' = ui_count + 1
    /\ \E msg \in ReplayMessages : Deliver(msg)
    /\ UNCHANGED <<engine, callback, evq, ghost, at_start, wf>>

ReplayNext ==
    \/ ReplayMessage \/ UiResume \/ Tick \/ EngineSpawned
    \/ CallbackStart \/ DrainCommand \/ CallbackFill
    \/ FillReceive \/ FillWrap \/ FillFinish \/ FillFeed \/ Unblock

ReplaySpec == Init /\ [][ReplayNext]_vars

\* ================================================================ properties
\* the frame that holds time t of audio a: the f with f/sr <= t < (f+1)/sr
FrameAt(t, a) ==
    CHOOSE f \in 0 .. t * a.sample_rate :
        /\ f * TicksPerSecond <= t * a.sample_rate
        /\ t * a.sample_rate < (f + 1) * TicksPerSecond

LoopStart == Unwrap(loop_region)[1]
LoopEnd == Unwrap(loop_region)[2]
NumFrames == Unwrap(audio).num_frames
Buf == Unwrap(stretcher).buf

\* the frame pairs of the regions (s, e) with 0 <= s < e <= duration
RegionFrames ==
    [a \in Audios |-> {<<FrameAt(r[1], a), FrameAt(r[2], a)>> : r \in Regions(Duration(a))}]

\* C1: SetLoopRegion(Some((s, e))) with 0 <= s < e <= duration computes
\* (frame(s), frame(e)) and stores such a pair; from then on, in every iteration of the fill loop that
\* starts with position <= frame(e), the position stays <= frame(e), every
\* frame fed to the stretcher has an index < frame(e), and an iteration that
\* finds position = frame(e) and receives nothing sets position to frame(s)
\* and feeds nothing.
C1_LoopEndNeverCrossed ==
    /\ [](\A a \in Audios : \A r \in Regions(Duration(a)) :
            LoopFrames(r, a) = <<FrameAt(r[1], a), FrameAt(r[2], a)>>)
    /\ [][/\ (last' = "SetLoopRegion" /\ IsSome(audio) /\ IsSome(loop_region'))
                => Unwrap(loop_region') \in RegionFrames[Unwrap(audio)]
          /\ (pc = "fill" /\ IsSome(loop_region) /\ position <= LoopEnd)
               => /\ position' <= LoopEnd
                  /\ \A i \in 1 .. Len(Buf') : i > Len(Buf) => Buf'[i] < LoopEnd
                  /\ (position = LoopEnd /\ out_pos' = out_pos)
                       => (position' = LoopStart /\ Buf' = <<>>)]_vars

\* a loop inside the buffer has sent the position back to its start
C1_Witness ==
    /\ last = "wrap"
    /\ IsSome(loop_region)
    /\ 0 < LoopStart /\ LoopStart < LoopEnd /\ LoopEnd < NumFrames
    /\ position = LoopStart
    /\ out_pos > 0

AllSilence(out) == \A i \in 1 .. Len(out) : out[i] = Silence
Emits(ev) ==
    \/ evq' = Append(evq, ev)
    \/ (blocked = None /\ IsSome(blocked') /\ Unwrap(blocked').ev = ev)

\* C2: with no loop region, between two commands fill_buffer emits at most one
\* PlaybackFinished (finished counts them); it emits one in the iteration that
\* finds every frame fed and nothing ready in the stretcher; that iteration
\* clears playing, ends the call and leaves silence from out_pos on; and a
\* fill_buffer call made while playing is false writes only silence, emits
\* nothing and changes no engine field.
C2_FinishedOnce ==
    /\ [](finished <= 1 /\ (finished = 1 => ~playing))
    /\ [][/\ (pc = "fill" /\ ~IsSome(loop_region) /\ position >= NumFrames /\ Buf = <<>>)
                => (finished' = finished + 1 /\ Emits(PlaybackFinished))
          /\ (finished' /= finished /\ finished' > 0)
                => /\ Emits(PlaybackFinished)
                   /\ ~playing'
                   /\ pc' \in {"idle", "blocked"}
                   /\ pc' = "idle" => \A i \in 1 .. Len(output') : i > out_pos => output'[i] = Silence
                   /\ \A i \in 1 .. Len(output') : i <= out_pos => output'[i] = output[i]
          /\ (pc = "idle" /\ ~playing /\ \E n \in 1 .. MaxOut : FillBegin(n))
                => /\ AllSilence(output') /\ Len(output') > 0
                   /\ pc' = "idle"
                   /\ evq' = evq
                   /\ engine' = engine]_vars

\* a call delivered frames, then found the stream at its end and finished
C2_Witness ==
    /\ last = "finish"
    /\ finished = 1
    /\ pc = "idle"
    /\ ~playing
    /\ position = NumFrames
    /\ 0 < out_pos /\ out_pos < Len(output)
    /\ output[1] >= 0
    /\ output[Len(output)] = Silence

\* C3: the engine's event send never blocks the audio callback: with the event
\* channel full, the event is dropped and handle_command and fill_buffer run on.
C3_SendNeverBlocks == pc /= "blocked"

\* the step in which the callback handles the oldest command of the channel
HandlesOldest ==
    /\ pc = "drain"
    /\ cmdq /= <<>>
    /\ cmdq' = Tail(cmdq)
    /\ HandleCommand(Head(cmdq), "drain")

C5_FillLoopProgress == stall <= 1

\* C6: with audio loaded, Seek(t) for t in [0, duration] sets position to the
\* frame that holds t, at most num_frames, and the next event in the channel is
\* a PositionChanged whose time is within one frame of t; playing is unchanged.
C6_SeekReportsPosition ==
    [][\A t \in 0 .. LoadedDuration :
        (pc = "idle" /\ IsSome(audio) /\ last' = "Seek" /\ HandleCommand(Seek(t), "idle"))
            => /\ position' = Min(FrameAt(t, Unwrap(audio)), NumFrames)
               /\ position' >= 0 /\ position' <= NumFrames
               /\ \E v \in 0 .. LoadedDuration :
                    /\ Emits(PositionChanged(v))
                    /\ (t - v) * Unwrap(audio).sample_rate < TicksPerSecond
                    /\ (v - t) * Unwrap(audio).sample_rate < TicksPerSecond
               /\ playing' = playing]_vars

\* a seek while playing, to a frame inside the buffer
C6_Witness ==
    /\ last = "Seek"
    /\ playing
    /\ 0 < position /\ position < NumFrames
    /\ evq = <<PositionChanged((position * TicksPerSecond) \div Unwrap(audio).sample_rate)>>

\* C7: every Stop leaves position = 0, playing = false and an empty stretcher
\* buffer and emits PositionChanged(0.0); a Stop that follows a Stop (stops
\* counts consecutive ones) changes no engine field.
C7_StopIdempotent ==
    [][(pc = "idle" /\ HandleCommand(Stop, "idle"))
        => /\ position' = 0
           /\ ~playing'
           /\ IsSome(stretcher') => Buf' = <<>>
           /\ Emits(PositionChanged(0))
           /\ stops >= 1 => engine' = engine]_vars

\* two Stops in a row, with audio loaded
C7_Witness ==
    /\ last = "Stop"
    /\ stops = 2
    /\ IsSome(audio)
    /\ evq = <<PositionChanged(0)>>

\* C8: 0 <= position <= num_frames of the loaded audio, and position = 0 while
\* no audio is loaded.
C8_PositionInRange ==
    /\ position >= 0
    /\ IsSome(audio) => position <= NumFrames
    /\ ~IsSome(audio) => position = 0

\* the last chunk fed has taken the position to num_frames
C8_Witness ==
    /\ last = "feed"
    /\ IsSome(audio)
    /\ position = NumFrames
    /\ Len(Buf) > 0

\* C9: the stored loop region is a frame range (start, end) with
\* start < end <= num_frames.
C9_LoopRegionOrdered ==
    IsSome(loop_region) => (LoopStart < LoopEnd /\ LoopEnd <= NumFrames)

\* C10: LoadAudio(data) leaves audio = data, position = 0, playing = false, no
\* loop region and an empty stretcher with data's sample rate and channel count
\* and the engine's tempo; the stored tempo is unchanged and no event is sent.
C10_LoadAudioResets ==
    [][\A a \in Audios :
        (pc = "idle" /\ HandleCommand(LoadAudio(a), "idle"))
            => /\ audio' = Some(a)
               /\ position' = 0
               /\ ~playing'
               /\ loop_region' = None
               /\ stretcher' = Some([sample_rate |-> a.sample_rate, channels |-> a.channels,
                                     tempo |-> tempo, buf |-> <<>>])
               /\ tempo' = tempo
               /\ evq' = evq /\ blocked' = blocked]_vars

\* a second buffer loaded after the tempo was changed
C10_Witness ==
    /\ last = "LoadAudio"
    /\ audio = Some(AudioB)
    /\ tempo /= UnitTempo
    /\ Unwrap(stretcher).tempo = tempo
    /\ Unwrap(stretcher).sample_rate = AudioB.sample_rate

\* C11: Play sets playing = true only when audio is loaded and is otherwise a
\* no-op that changes no engine field and sends no event; in every state
\* playing = true implies that audio and a stretcher are present.
C11_PlayNeedsAudio ==
    /\ [](playing => (IsSome(audio) /\ IsSome(stretcher)))
    /\ [][(pc = "idle" /\ HandleCommand(Play, "idle"))
            => /\ IsSome(audio) => playing'
               /\ ~IsSome(audio) => (engine' = engine /\ ~playing')
               /\ <<audio', position', tempo', loop_region', stretcher', frames_since_update'>>
                    = <<audio, position, tempo, loop_region, stretcher, frames_since_update>>
               /\ evq' = evq /\ blocked' = blocked]_vars

\* Play was handled with nothing loaded and the engine is not playing
C11_Witness ==
    /\ last = "Play"
    /\ ~IsSome(audio)
    /\ ~playing

\* C12: right after Stop, and after Seek with audio loaded, the stretcher holds
\* no frame; a frame reaches the output only from the front of the stretcher's
\* buffer, and the buffer grows only when fill_buffer feeds it: nothing fed
\* before the command is written to an output buffer after it.
C12_StopSeekCancel ==
    [][/\ (pc = "idle" /\ last' = "Stop" /\ HandleCommand(Stop, "idle"))
            => Buffered(stretcher') = 0
       /\ \A t \in 0 .. LoadedDuration :
            (pc = "idle" /\ IsSome(audio) /\ last' = "Seek" /\ HandleCommand(Seek(t), "idle"))
                => Buffered(stretcher') = 0
       /\ \A i \in 1 .. Len(output') :
            (i <= Len(output) /\ output'[i] /= output[i] /\ output'[i] >= 0)
                => /\ out_pos < i /\ i <= out_pos'
                   /\ output'[i] = Buf[i - out_pos]
                   /\ Buffered(stretcher') = Buffered(stretcher) - (out_pos' - out_pos)
       /\ Buffered(stretcher') > Buffered(stretcher)
            => (pc = "fill" /\ last' = "feed")]_vars

\* a Stop or a Seek has discarded frames the stretcher still held
C12_Witness ==
    /\ last \in {"Stop", "Seek"}
    /\ dropped > 0
    /\ IsSome(stretcher)
    /\ Buf = <<>>

\* handle_command is called with a command of type t (a call starts with the
\* event channel drained, and only handle_command records a command type)
Handled(t) == pc = "idle" /\ evq = <<>> /\ last' = t

\* C13: the playing flag changes only so: Play sets it when audio is loaded;
\* Pause, Stop and LoadAudio clear it; fill_buffer clears it at the end of the
\* stream with no loop region; Seek, SetTempo, SetLoopRegion and Shutdown
\* leave it as it is.
C13_PlayingFrame ==
    [][/\ Handled("Play") => playing' = (IsSome(audio) \/ playing)
       /\ (Handled("Pause") \/ Handled("Stop") \/ Handled("LoadAudio")) => ~playing'
       /\ (Handled("Seek") \/ Handled("SetTempo") \/ Handled("SetLoopRegion") \/ Handled("Shutdown"))
            => playing' = playing
       /\ (playing' /= playing /\ ~(pc = "idle" /\ evq = <<>>))
            => /\ pc = "fill" /\ ~playing'
               /\ position >= NumFrames /\ loop_region = None
       /\ (playing' /= playing /\ pc = "idle" /\ evq = <<>>)
            => last' \in {"Play", "Pause", "Stop", "LoadAudio"}]_vars

\* a loop region was set during playback, and playback goes on
C13_Witness ==
    /\ last = "SetLoopRegion"
    /\ playing
    /\ IsSome(loop_region)
    /\ frames_since_update > 0

\* C14: Pause sets playing = false and leaves position, loop region, tempo and
\* the stretcher with its buffered frames unchanged and sends no event; a
\* fill_buffer call while paused changes no engine field and outputs silence;
\* Play then changes nothing but playing: playback resumes with the frames
\* that were buffered and the position that was kept.
C14_PausePreserves ==
    [][/\ Handled("Pause")
            => /\ ~playing'
               /\ <<audio', position', tempo', loop_region', stretcher', frames_since_update'>>
                    = <<audio, position, tempo, loop_region, stretcher, frames_since_update>>
               /\ evq' = evq
       /\ (pc = "idle" /\ evq = <<>> /\ ~playing /\ last' \in {"silence", "fill_begin"})
            => /\ engine' = engine
               /\ pc' = "idle"
               /\ AllSilence(output') /\ Len(output') > 0
               /\ evq' = evq
       /\ (Handled("Play") /\ IsSome(audio))
            => /\ playing'
               /\ <<audio', position', tempo', loop_region', stretcher', frames_since_update'>>
                    = <<audio, position, tempo, loop_region, stretcher, frames_since_update>>]_vars

\* paused in the middle of the buffer with frames still in the stretcher
C14_Witness ==
    /\ last = "Pause"
    /\ ~playing
    /\ 0 < position
    /\ Buffered(stretcher) > 0

\* C15: while a loop region is active, fill_buffer sends no PlaybackFinished
\* and leaves playing set, and playback repeats: once the position has been
\* sent back to the loop start, the next iteration of the fill loop delivers
\* or feeds frames of the loop instead of sending the position back again.
C15_LoopRepeats ==
    [][(pc = "fill" /\ IsSome(loop_region))
        => /\ playing'
           /\ ~Emits(PlaybackFinished)
           /\ last = "wrap" => last' /= "wrap"]_vars

\* C16: every decoded file is handed to the engine, whatever the order of
\* FileLoaded(Ok) and EngineReady: once the engine is ready, no send is
\* pending and the command channel is drained, the engine holds the audio
\* whose waveform and duration the App shows.
C16_LoadedAudioReachesEngine ==
    (app.cmd_tx /\ IsSome(app.audio_data) /\ ui_blocked = None /\ cmdq = <<>>)
        => audio = app.audio_data

\* C17: handling FileLoaded(Err) only records the error: no command enters the
\* command channel, no engine field changes, and the App's audio, duration,
\* status and position stay as they were.
C17_DecodeErrorOnlyRecorded ==
    [][(ui_blocked = None /\ ui_count' = ui_count + 1
            /\ Deliver([type |-> "FileLoaded", ok |-> FALSE]))
        => /\ cmdq' = cmdq
           /\ engine' = engine
           /\ app'.error /= "none"
           /\ \A f \in {"audio_data", "duration", "status", "position", "cmd_tx"} : app'[f] = app[f]]_vars

\* a decode failed while an earlier file is loaded and playing
C17_Witness ==
    /\ app.error = "decode"
    /\ IsSome(app.audio_data)
    /\ audio = app.audio_data
    /\ app.status = "Playing"
    /\ playing

\* C18: after EngineReady(Err), whatever messages follow, no command is ever
\* sent, the App's status never becomes Playing and app.error stays set.
C18_EngineFailurePersists ==
    app.engine_task = "failed"
        => /\ cmdq = <<>> /\ ui_blocked = None /\ ~app.cmd_tx
           /\ app.status /= "Playing"
           /\ app.error /= "none"

\* C25: fill_buffer cannot panic: when it feeds, position is below num_frames
\* and below the loop end, so neither total_frames - position nor
\* end - position underflows, and the slice fed is the frames
\* [position, position + feed_frames) with position + feed_frames <=
\* num_frames; when it writes received frames, they fit in the output.
C25_FillNeverPanics ==
    [][/\ (pc = "fill" /\ last' = "feed")
            => /\ position < NumFrames
               /\ IsSome(loop_region) => position < LoopEnd
               /\ position <= position' /\ position' <= NumFrames
               /\ Buffered(stretcher') = Buffered(stretcher) + (position' - position)
               /\ \A k \in 1 .. (position' - position) :
                    Unwrap(stretcher').buf[Buffered(stretcher) + k] = position + k - 1
       /\ (pc = "fill" /\ last' = "recv")
            => /\ out_pos < out_pos' /\ out_pos' <= Len(output)
               /\ Len(output') = Len(output)
               /\ \A i \in 1 .. Len(output) :
                    output'[i] /= output[i] => (out_pos < i /\ i <= out_pos')]_vars

\* the last frames of the buffer were fed, the chunk cut at num_frames, after
\* frames were written to the output in the same call
C25_Witness ==
    /\ last = "feed"
    /\ pc = "fill"
    /\ out_pos > 0
    /\ position = NumFrames
    /\ Buf /= <<>> /\ Buf[Len(Buf)] = NumFrames - 1

\* the step puts a PositionChanged into the channel or into a blocked send
EmitsPosition ==
    \/ (evq' /= evq /\ evq' /= <<>> /\ evq'[Len(evq')].type = "PositionChanged")
    \/ (blocked = None /\ IsSome(blocked') /\ Unwrap(blocked').ev.type = "PositionChanged")

\* C26: frames_since_update counts the output frames delivered and is kept
\* from one fill_buffer call to the next: only a receive changes it. A receive
\* that takes it to POSITION_UPDATE_INTERVAL or more sends PositionChanged with
\* position / sample_rate and resets it to 0; any other receive adds the
\* frames delivered and sends nothing; no other iteration of the loop sends a
\* PositionChanged. So the counter stays below the interval, and two such
\* events are at least POSITION_UPDATE_INTERVAL delivered frames apart.
C26_ThrottledPosition ==
    /\ [](frames_since_update < POSITION_UPDATE_INTERVAL)
    /\ [][/\ (pc = "fill" /\ last' = "recv")
                => (LET got == out_pos' - out_pos
                    IN IF frames_since_update + got >= POSITION_UPDATE_INTERVAL
                       THEN /\ frames_since_update' = 0
                            /\ Emits(PositionChanged(FrameToTime(position, Unwrap(audio).sample_rate)))
                       ELSE /\ frames_since_update' = frames_since_update + got
                            /\ ~EmitsPosition)
          /\ ~(pc = "fill" /\ last' = "recv") => frames_since_update' = frames_since_update
          /\ (pc = "fill" /\ last' /= "recv") => ~EmitsPosition]_vars

\* the counter reached the interval in a call that delivered fewer frames
\* than the interval: the event is in the channel and the counter is 0 again
C26_Witness ==
    /\ last = "recv"
    /\ frames_since_update = 0
    /\ 0 < out_pos /\ out_pos < POSITION_UPDATE_INTERVAL
    /\ evq /= <<>>
    /\ evq[Len(evq)] = PositionChanged(FrameToTime(position, Unwrap(audio).sample_rate))
    /\ position > 0

\* C27: a fill_buffer call made while playing is false or no audio is loaded
\* writes silence to the whole output and returns at once: position, loop
\* region, tempo, the stretcher and its buffer, the throttle counter, audio and
\* playing are as before, and no event is sent.
C27_IdleFillIsSilent ==
    [][(pc = "idle" /\ (~playing \/ ~IsSome(audio)) /\ last' \in {"silence", "fill_begin"})
        => /\ Len(output') > 0
           /\ \A i \in 1 .. Len(output') : output'[i] = Silence
           /\ pc' = "idle"
           /\ <<position', loop_region', tempo', stretcher', frames_since_update'>>
                = <<position, loop_region, tempo, stretcher, frames_since_update>>
           /\ audio' = audio /\ playing' = playing
           /\ evq' = evq /\ blocked' = blocked]_vars

\* silence was written while paused in mid-file, with a loop region, a tempo
\* other than 1.0, frames in the stretcher and a counter that is running
C27_Witness ==
    /\ last = "silence"
    /\ ~playing
    /\ IsSome(audio) /\ IsSome(loop_region)
    /\ position > 0
    /\ tempo /= UnitTempo
    /\ Buffered(stretcher) > 0
    /\ frames_since_update > 0
    /\ AllSilence(output) /\ Len(output) = MaxOut

\* C28: whenever a stretcher exists its tempo is the engine's stored tempo:
\* SetTempo stores the ratio and sets it on the stretcher, keeping what the
\* stretcher has buffered, and LoadAudio gives the new stretcher the stored
\* tempo, so a tempo set before a load holds for the audio loaded next.
C28_StretcherTempoIsStored ==
    /\ [](IsSome(stretcher) => Unwrap(stretcher).tempo = tempo)
    /\ [][Handled("SetTempo")
            => /\ tempo' \in Tempos
               /\ IsSome(stretcher') = IsSome(stretcher)
               /\ IsSome(stretcher') => Unwrap(stretcher').tempo = tempo'
               /\ Buffered(stretcher') = Buffered(stretcher)]_vars

\* the tempo was changed in mid-playback, with frames in the stretcher
C28_Witness ==
    /\ last = "SetTempo"
    /\ playing
    /\ tempo /= UnitTempo
    /\ IsSome(stretcher) /\ Unwrap(stretcher).tempo = tempo
    /\ Buffered(stretcher) > 0

\* C29: the control thread and the callback never wait on each other: in no
\* reachable state is the control thread blocked in tx.send on the full
\* command channel while the callback is blocked in event_tx.send on the full
\* event channel.
C29_NeverBothBlocked ==
    ~(/\ ui_blocked /= None /\ Len(cmdq) >= CmdCap
      /\ pc = "blocked" /\ Len(evq) >= EventCap)

\* C30: whenever both channels are empty, no send is pending and no callback
\* is running, the App's status is Playing exactly when the engine's playing
\* flag is set.
C30_StatusMirrorsEngine ==
    (cmdq = <<>> /\ evq = <<>> /\ ui_blocked = None /\ pc = "idle")
        => ((app.status = "Playing") <=> playing)

\* Message::Tick takes a batch of events that ends with PlaybackFinished
TakesFinished ==
    /\ evq /= <<>>
    /\ evq' = <<>>
    /\ app' /= app
    /\ evq[Len(evq)] = PlaybackFinished

\* an iteration of fill_buffer while playing after the stream has ended and
\* the position has not been moved back since
ReplayIteration ==
    /\ pc = "fill"
    /\ ended > 0
    /\ playing
    /\ UNCHANGED control
    /\ Len(evq') >= Len(evq)

\* what such an iteration does: no frame is fed; when the stretcher returns
\* nothing, as it does once it is empty, PlaybackFinished is emitted and
\* playing cleared; when that is the first iteration of the call, the buffer
\* the call returns is all silence
FinishesAgain ==
    /\ last' \in {"recv", "finish"}
    /\ position' = position
    /\ Buf = <<>> => last' = "finish"
    /\ last' = "finish" => (Emits(PlaybackFinished) /\ ~playing')
    /\ (last' = "finish" /\ out_pos = 0 /\ pc' = "idle") => AllSilence(output')

MaxMono == 5
MaxWidth == 4
MaxTotal == 33
\* a loaded file drawn on a wide canvas: samples of the buffer and columns
MaxImpulse == 11
MaxCanvas == 11
F32_MAX == 2
F32_MIN == 0 - F32_MAX
Samples == {0 - 1, 0, 1}

RESOLUTIONS == <<1, 4, 16, 64>>

Peak(lo, hi) == [min |-> lo, max |-> hi]

\* the loop of compute_peaks_at_resolution over one chunk, from (MAX, MIN)
RECURSIVE ChunkPeak(_, _)
ChunkPeak(chunk, acc) ==
    IF chunk = <<>> THEN acc
    ELSE LET x == Head(chunk)
             lo == IF x < acc.min THEN x ELSE acc.min
             hi == IF x > acc.max THEN x ELSE acc.max
         IN ChunkPeak(Tail(chunk), Peak(lo, hi))

\* mutant: chunks_exact, the short last chunk is left out
NumChunksExact(n, spp) == n \div spp

\* mono.chunks(samples_per_peak): every chunk full but possibly the last
NumChunks(n, spp) == (n + spp - 1) \div spp
Chunk(mono, spp, k) == SubSeq(mono, (k - 1) * spp + 1, Min(k * spp, Len(mono)))

compute_peaks_at_resolution(mono, spp) ==
    [k \in 1 .. NumChunks(Len(mono), spp) |-> ChunkPeak(Chunk(mono, spp, k), Peak(F32_MAX, F32_MIN))]

\* WaveformPeaks::compute, from the mono mix-down of the audio
compute(mono) ==
    [l \in 1 .. Len(RESOLUTIONS) |->
        [spp |-> RESOLUTIONS[l], peaks |-> compute_peaks_at_resolution(mono, RESOLUTIONS[l])]]

\* (*spp as f32) <= target_spp * 2.0 with target_spp = total_frames / canvas_width
FineEnough(spp, width, total) == spp * width <= 2 * total

\* mutant: the scan starts at the finest level
FindFromFinest(levels, l, width, total) ==
    IF \E k \in 1 .. l : FineEnough(levels[k].spp, width, total)
    THEN CHOOSE k \in 1 .. l :
            /\ FineEnough(levels[k].spp, width, total)
            /\ \A j \in 1 .. l : FineEnough(levels[j].spp, width, total) => k <= j
    ELSE 1

\* mutant: when no level passes, the coarsest level is taken
FindFallbackCoarsest(levels, l, width, total) ==
    IF \E k \in 1 .. l : FineEnough(levels[k].spp, width, total)
    THEN CHOOSE k \in 1 .. l :
            /\ FineEnough(levels[k].spp, width, total)
            /\ \A j \in 1 .. l : FineEnough(levels[j].spp, width, total) => j <= k
    ELSE Max(l, 1)

\* levels.iter().rev().find(..).unwrap_or(&levels[0]): the index of the level
RECURSIVE FindFromCoarsest(_, _, _, _)
FindFromCoarsest(levels, l, width, total) ==
    IF l = 0 THEN 1
    ELSE IF FineEnough(levels[l].spp, width, total) THEN l
    ELSE FindFromCoarsest(levels, l - 1, width, total)

BestLevel(levels, width, total) == FindFromCoarsest(levels, Len(levels), width, total)

\* the loop over base_peaks[peak_start .. peak_end.max(peak_start + 1)], from (MAX, MIN)
RECURSIVE MergePeaks(_, _, _, _)
MergePeaks(base, from, to, acc) ==
    IF from >= to THEN acc
    ELSE MergePeaks(base, from + 1, to,
                    Peak(Min(acc.min, base[from + 1].min), Max(acc.max, base[from + 1].max)))

\* f64 arithmetic of the column bounds. An f64 keeps 53 significant bits and
\* rounds to nearest, ties to even; the model keeps MantissaBits of them, as
\* it keeps the ratios of the levels. A value is <<m, d>> for m / d with d a
\* power of two; no value here reaches 2^MantissaBits.
MantissaBits == 11

RECURSIVE Pow2(_)
Pow2(n) == IF n = 0 THEN 1 ELSE 2 * Pow2(n - 1)

\* the least e from which n / d * 2^e has MantissaBits bits before the point
RECURSIVE Exponent(_, _, _)
Exponent(n, d, e) ==
    IF n * Pow2(e) >= Pow2(MantissaBits - 1) * d THEN e ELSE Exponent(n, d, e + 1)

NearestEven(n, d) ==
    LET q == n \div d
        r == n % d
    IN IF 2 * r > d \/ (2 * r = d /\ q % 2 = 1) THEN q + 1 ELSE q

\* the f64 nearest to n / d
F64(n, d) ==
    IF n = 0 THEN <<0, 1>>
    ELSE LET e == Exponent(n, d, 0)
         IN <<NearestEven(n * Pow2(e), d), Pow2(e)>>

\* floor(i * len / width), without rounding
FloorIndex(i, width, len) == (i * len) \div width

\* ((i as f64 / width as f64) * len as f64) as usize
ScaledIndexOf(i, width, len) ==
    LET frac == F64(i, width)
        scaled == F64(frac[1] * len, frac[2])
    IN scaled[1] \div scaled[2]

\* the same for every width and length of the model, computed once
ScaledIndexes ==
    [width \in 1 .. Max(MaxWidth, MaxCanvas) |->
        [len \in 0 .. Max(MaxMono, MaxImpulse) |->
            [i \in 0 .. width |-> ScaledIndexOf(i, width, len)]]]

ScaledIndex(i, width, len) == ScaledIndexes[width][len][i]

\* mutant: the range of base peaks is taken as computed, empty or not
ColumnNoWiden(base, i, width) ==
    LET peak_start == ScaledIndex(i, width, Len(base))
        peak_end == Min(ScaledIndex(i + 1, width, Len(base)), Len(base))
    IN IF peak_start >= Len(base) THEN Peak(0, 0)
       ELSE MergePeaks(base, peak_start, peak_end, Peak(F32_MAX, F32_MIN))

\* column i (from 0) of the result
Column(base, i, width) ==
    LET peak_start == ScaledIndex(i, width, Len(base))
        peak_end == Min(ScaledIndex(i + 1, width, Len(base)), Len(base))
    IN IF peak_start >= Len(base) THEN Peak(0, 0)
       ELSE MergePeaks(base, peak_start, Max(peak_end, peak_start + 1), Peak(F32_MAX, F32_MIN))

\* for i in 0..width: one peak per column
Resample(base, width) == [c \in 1 .. width |-> Column(base, c - 1, width)]

\* mutant: no early return
peaks_for_width_unguarded(levels, width, total) ==
    Resample(levels[BestLevel(levels, width, total)].peaks, width)

peaks_for_width(levels, width, total) ==
    IF total = 0 \/ width <= 0 THEN <<>>
    ELSE Resample(levels[BestLevel(levels, width, total)].peaks, width)

\* the samples_per_peak of the level peaks_for_width reads, 0 when it returns
\* before the scan of the levels
LevelRead(levels, width, total) ==
    IF total = 0 \/ width <= 0 THEN 0
    ELSE levels[BestLevel(levels, width, total)].spp

\* every mono buffer of up to MaxMono samples
RECURSIVE SeqsUpTo(_, _)
SeqsUpTo(S, n) ==
    IF n = 0 THEN {<<>>}
    ELSE LET shorter == SeqsUpTo(S, n - 1)
         IN shorter \cup {Append(q, x) : q \in {r \in shorter : Len(r) = n - 1}, x \in S}

Monos == SeqsUpTo(Samples, MaxMono)

\* the widths a draw is given: the canvas bounds, none of them excluded
Widths == (0 - 1) .. MaxWidth

\* a decoded buffer whose peaks are not computed yet
PeakInit ==
    /\ Constructed
    /\ \E m \in Monos : wf = [NoView EXCEPT !.stage = "decoded", !.mono = m]

\* FileLoaded(Ok): WaveformPeaks::compute(&data) and set_peaks
ComputePeaks ==
    /\ wf.stage = "decoded"
    /\ wf' = [wf EXCEPT !.stage = "computed", !.levels = compute(wf.mono)]
    /\ UNCHANGED <<engine, callback, evq, ghost, cmdq, app, ui_blocked, ui_count, at_start>>

\* the canvas draws: peaks.peaks_for_width(width, total_frames)
PeaksForWidth ==
    /\ wf.stage = "computed"
    /\ \E w \in Widths, n \in 0 .. MaxTotal :
        wf' = [wf EXCEPT !.stage = "shown", !.width = w, !.total_frames = n,
                         !.shown = peaks_for_width(wf.levels, w, n),
                         !.spp = LevelRead(wf.levels, w, n)]
    /\ UNCHANGED <<engine, callback, evq, ghost, cmdq, app, ui_blocked, ui_count, at_start>>

\* the canvas is resized and draws again: the same peaks and total_frames,
\* another width; the view remembers the draw before
Redraw ==
    /\ wf.stage = "shown"
    /\ \E w \in Widths :
        wf' = [wf EXCEPT !.width = w,
                         !.shown = peaks_for_width(wf.levels, w, wf.total_frames),
                         !.spp = LevelRead(wf.levels, w, wf.total_frames),
                         !.prev = <<[width |-> wf.width, spp |-> wf.spp]>>]
    /\ UNCHANGED <<engine, callback, evq, ghost, cmdq, app, ui_blocked, ui_count, at_start>>

PeakNext == ComputePeaks \/ PeaksForWidth

\* ---- the columns of a loaded file: total_frames is the buffer's num_frames
\* buffers of up to MaxImpulse samples with at most one sample that is not 0
Impulses ==
    {[k \in 1 .. n |-> IF k = at THEN x ELSE 0] : n \in 0 .. MaxImpulse, at \in 0 .. MaxImpulse, x \in Samples}

ColumnInit ==
    /\ Constructed
    /\ \E m \in Impulses : wf = [NoView EXCEPT !.stage = "decoded", !.mono = m]

\* set_peaks(peaks, data.num_frames(), duration), then the canvas draws
DrawLoaded ==
    /\ wf.stage = "computed"
    /\ \E w \in 0 .. MaxCanvas :
        wf' = [wf EXCEPT !.stage = "shown", !.width = w, !.total_frames = Len(wf.mono),
                         !.shown = peaks_for_width(wf.levels, w, Len(wf.mono)),
                         !.spp = LevelRead(wf.levels, w, Len(wf.mono))]
    /\ UNCHANGED <<engine, callback, evq, ghost, cmdq, app, ui_blocked, ui_count, at_start>>

ColumnNext == ComputePeaks \/ DrawLoaded

ColumnSpec == ColumnInit /\ [][ColumnNext]_vars

\* ---- a view that is resized: draws of the same peaks at several widths
ResizeNext == ComputePeaks \/ PeaksForWidth \/ Redraw

ResizeSpec == ColumnInit /\ [][ResizeNext]_vars

PeakSpec == PeakInit /\ [][PeakNext]_vars

\* the level peaks_for_width has resampled for the view's width and total_frames
ChosenPeaks == wf.levels[BestLevel(wf.levels, wf.width, wf.total_frames)].peaks

\* C19: for every buffer, every width W >= 1 and every N >= 1,
\* compute(audio).peaks_for_width(W, N) has exactly W peaks, each with
\* min <= max, also when the level chosen has fewer than W peaks or none.
C19_ExactlyWidthPeaks ==
    (wf.stage = "shown" /\ wf.width >= 1 /\ wf.total_frames >= 1)
        => /\ Len(wf.shown) = wf.width
           /\ \A c \in 1 .. Len(wf.shown) : wf.shown[c].min <= wf.shown[c].max

\* more columns than the chosen level has peaks, over a buffer that is not flat
C19_Witness ==
    /\ wf.stage = "shown"
    /\ wf.total_frames >= 1
    /\ wf.width = MaxWidth
    /\ Len(ChosenPeaks) > 0 /\ Len(ChosenPeaks) < wf.width
    /\ \E c \in 1 .. Len(wf.shown) : wf.shown[c].min < wf.shown[c].max

\* the levels whose samples_per_peak <= 2 * total_frames / width
WithinBound == {l \in 1 .. Len(wf.levels) : FineEnough(wf.levels[l].spp, wf.width, wf.total_frames)}
\* the one with the fewest samples per peak, and the one with the most
FinestOf(ls) == CHOOSE l \in ls : \A k \in ls : wf.levels[l].spp <= wf.levels[k].spp
CoarsestOf(ls) == CHOOSE l \in ls : \A k \in ls : wf.levels[l].spp >= wf.levels[k].spp
Drawn == wf.stage = "shown" /\ wf.width >= 1 /\ wf.total_frames >= 1

\* C20 as stated: peaks_for_width resamples the finest level whose
\* samples_per_peak <= 2 * target_spp, and the finest level (64) when no level
\* is within that bound.
C20_FinestWithinBound ==
    Drawn => wf.shown = Resample(wf.levels[IF WithinBound = {} THEN 1 ELSE FinestOf(WithinBound)].peaks,
                                 wf.width)

\* C20: peaks_for_width resamples the coarsest level whose samples_per_peak
\* <= 2 * target_spp (the first match of a scan from the coarsest level), and
\* the finest level (64) when no level is within that bound.
C20_CoarsestWithinBound ==
    Drawn => wf.shown = Resample(wf.levels[IF WithinBound = {} THEN 1 ELSE CoarsestOf(WithinBound)].peaks,
                                 wf.width)

\* several levels are within the bound and the coarsest of them is drawn,
\* which differs from what the finest level would give
C20_Witness ==
    /\ Drawn
    /\ \E a \in WithinBound, b \in WithinBound : a /= b
    /\ wf.shown = Resample(wf.levels[CoarsestOf(WithinBound)].peaks, wf.width)
    /\ wf.shown /= Resample(wf.levels[1].peaks, wf.width)

\* the draw before the current one, when both selected a level
Redrawn ==
    /\ Drawn
    /\ wf.prev /= <<>>
    /\ wf.prev[1].width >= 1

\* C21: for a fixed buffer and total_frames, of two draws with widths
\* W1 < W2 the level selected for W1 has a samples_per_peak >= that of the
\* level selected for W2.
C21_CoarserWhenNarrower ==
    Redrawn
        => /\ wf.prev[1].width < wf.width => wf.prev[1].spp >= wf.spp
           /\ wf.width < wf.prev[1].width => wf.spp >= wf.prev[1].spp

\* the canvas was widened and the draw moved to a strictly finer level that
\* is not the fallback
C21_Witness ==
    /\ Redrawn
    /\ wf.prev[1].width < wf.width
    /\ wf.prev[1].spp > wf.spp
    /\ wf.spp > RESOLUTIONS[1]

\* the base peaks column c (from 1) covers in exact arithmetic: the indexes in
\* [floor((c-1) L / W), floor(c L / W)), or the first of them alone when empty
ExactRange(c, L, W) ==
    LET lo == FloorIndex(c - 1, W, L)
        hi == FloorIndex(c, W, L)
    IN IF lo < hi THEN lo .. (hi - 1) ELSE {lo}

SetMin(S) == CHOOSE x \in S : \A y \in S : x <= y
SetMax(S) == CHOOSE x \in S : \A y \in S : x >= y

\* the first part of C22: the columns merge the exact ranges
C22_ExactColumns ==
    Drawn => \A c \in 1 .. Len(wf.shown) :
                LET range == ExactRange(c, Len(ChosenPeaks), wf.width)
                IN /\ wf.shown[c].min = SetMin({ChosenPeaks[k + 1].min : k \in range})
                   /\ wf.shown[c].max = SetMax({ChosenPeaks[k + 1].max : k \in range})

\* the second part: no column leaves the extrema of the base peaks
C22_WithinExtrema ==
    Drawn => \A c \in 1 .. Len(wf.shown) :
                /\ wf.shown[c].min >= SetMin({ChosenPeaks[k].min : k \in 1 .. Len(ChosenPeaks)})
                /\ wf.shown[c].max <= SetMax({ChosenPeaks[k].max : k \in 1 .. Len(ChosenPeaks)})

\* the third part: a buffer of zeros is drawn as zeros
C22_FlatStaysFlat ==
    (Drawn /\ \A k \in 1 .. Len(wf.mono) : wf.mono[k] = 0)
        => \A c \in 1 .. Len(wf.shown) : wf.shown[c] = Peak(0, 0)

\* C22: every column i of peaks_for_width(W, N) is the minimum of the mins and
\* the maximum of the maxes of the chosen level's peaks with index in
\* [floor(i L / W), floor((i+1) L / W)), or of the peak at floor(i L / W) alone
\* when that range is empty; so every column lies within the extrema of the
\* base peaks, and a buffer of zeros gives only (0, 0) columns.
C22_ColumnsMergeExactRange ==
    /\ C22_ExactColumns
    /\ C22_WithinExtrema
    /\ C22_FlatStaysFlat

\* the least number of runs of f samples that cover n samples
CeilDiv(n, f) == CHOOSE c \in 0 .. n : c * f >= n /\ \A b \in 0 .. n : b * f >= n => c <= b

\* the mono samples k f .. min((k+1) f, n) - 1, with k from 0
SamplesOfPeak(k, f) ==
    {wf.mono[s + 1] : s \in (k * f) .. (Min((k + 1) * f, Len(wf.mono)) - 1)}

\* C23: compute(audio) gives exactly the four levels of RESOLUTIONS, in that
\* order; the level of factor f has ceil(num_frames / f) peaks, peak k being
\* the minimum and the maximum of the mono samples k f .. min((k+1) f,
\* num_frames) - 1; a larger factor never has more peaks than a smaller one.
C23_LevelsAreChunkExtrema ==
    wf.stage \in {"computed", "shown"}
        => /\ Len(wf.levels) = 4
           /\ \A l \in 1 .. 4 :
                LET f == wf.levels[l].spp
                    peaks == wf.levels[l].peaks
                IN /\ f = RESOLUTIONS[l]
                   /\ Len(peaks) = CeilDiv(Len(wf.mono), f)
                   /\ \A k \in 1 .. Len(peaks) :
                        /\ peaks[k].min = SetMin(SamplesOfPeak(k - 1, f))
                        /\ peaks[k].max = SetMax(SamplesOfPeak(k - 1, f))
           /\ \A a, b \in 1 .. 4 :
                wf.levels[a].spp < wf.levels[b].spp
                    => Len(wf.levels[a].peaks) >= Len(wf.levels[b].peaks)

\* a buffer that ends in a short chunk at the second level, whose peak is
\* that one sample, after a full chunk that is not flat
C23_Witness ==
    /\ wf.stage = "computed"
    /\ Len(wf.mono) = RESOLUTIONS[2] + 1
    /\ Len(wf.levels[2].peaks) = 2
    /\ wf.levels[2].peaks[1].min < wf.levels[2].peaks[1].max
    /\ wf.levels[2].peaks[2] = Peak(wf.mono[Len(wf.mono)], wf.mono[Len(wf.mono)])
    /\ Len(wf.levels[1].peaks) > Len(wf.levels[2].peaks)

\* C24: peaks_for_width returns the empty sequence whenever total_frames = 0
\* or the width is <= 0, whatever the WaveformPeaks value, and reads no level
\* for it.
C24_DegenerateDrawsNothing ==
    (wf.stage = "shown" /\ (wf.total_frames = 0 \/ wf.width <= 0))
        => wf.shown = <<>> /\ wf.spp = 0

\* a buffer with peaks at every level, drawn at full width with total_frames = 0
C24_Witness ==
    /\ wf.stage = "shown"
    /\ wf.total_frames = 0
    /\ wf.width = MaxWidth
    /\ \A l \in 1 .. Len(wf.levels) : wf.levels[l].peaks /= <<>>
    /\ wf.shown = <<>>
    /\ wf.spp = 0
====
